---- MODULE Spec2Model ----
(***************************************************************************)
(* os_error: a typed wrapper around a raw operating-system error code.     *)
(*                                                                         *)
(* The crate (src/src/lib.rs) holds one value type, OsError { code: i32 }, *)
(* and forwards classification and message rendering to std::io::Error.    *)
(* The model keeps the crate's functions as operators and its uses as      *)
(* actions.  std::io::Error is the host: it is modelled by the two kinds   *)
(* of error the crate builds or is handed (Os: from a raw code, Custom:    *)
(* from a kind and a message), a classification table and a message table  *)
(* for the codes of Codes, and a last-error cell per thread.               *)
(***************************************************************************)
EXTENDS Integers, Sequences, FiniteSets, TLC

(***************************************************************************)
(* Bounds.                                                                 *)
(***************************************************************************)
NumThreads == 2

Threads == 1..NumThreads

\* Raw codes used as inputs: a negative value, zero, a code the host does
\* not classify (6, the CODE of the tests) and one it does (98, EADDRINUSE
\* in the doc example of OsError::new).
Codes == {-1, 0, 6, 98}

\* The codes compared: those and the two ends of i32.
I32Max == 2147483647

I32Min == -I32Max - 1

CmpCodes == Codes \cup {I32Min, I32Max}

\* Codes a failing system call records as the thread's last error.
SysCodes == {6, 98}

(***************************************************************************)
(* Option and Result.                                                      *)
(***************************************************************************)
None == <<>>

Some(x) == <<x>>

IsSome(o) == o # None

Unwrapped(o) == o[1]

Ok(x) == [ok |-> TRUE, val |-> x]

NoOsError == "NoOsError"

Err(e) == [ok |-> FALSE, err |-> e]

(***************************************************************************)
(* The host: std::io::Error as the crate sees it.                          *)
(***************************************************************************)
\* io::Error::from_raw_os_error(code): an error that carries a raw code.
io_Error_from_raw_os_error(c) == [repr |-> "Os", code |-> c]

\* io::Error::new(kind, msg): an error that carries no raw code.
io_Error_new(k, m) == [repr |-> "Custom", kind |-> k, msg |-> m]

\* io::Error::raw_os_error(): Some(code) for the Os representation only.
raw_os_error(e) == IF e.repr = "Os" THEN Some(e.code) ELSE None

\* The codes the host's classification table knows (Linux: 98 is
\* EADDRINUSE); every other code is classified Other.
HostKindTable == [c \in {98} |-> "AddrInUse"]

HostRecognises(c) == c \in DOMAIN HostKindTable

decode_error_kind(c) == IF HostRecognises(c) THEN HostKindTable[c] ELSE "Other"

\* io::Error::kind()
io_Error_kind(e) == IF e.repr = "Os" THEN decode_error_kind(e.code) ELSE e.kind

(***************************************************************************)
(* Decimal rendering of an integer, as {} and {:?} print an i32.           *)
(***************************************************************************)
Digit(d) == CASE d = 0 -> "0" [] d = 1 -> "1" [] d = 2 -> "2" [] d = 3 -> "3"
              [] d = 4 -> "4" [] d = 5 -> "5" [] d = 6 -> "6" [] d = 7 -> "7"
              [] d = 8 -> "8" [] d = 9 -> "9"

RECURSIVE NatToStr(_)
NatToStr(n) == IF n < 10 THEN Digit(n) ELSE NatToStr(n \div 10) \o Digit(n % 10)

IntToStr(i) == IF i < 0 THEN "-" \o NatToStr(-i) ELSE NatToStr(i)

\* The host's message for a raw code (strerror).
error_string(c) ==
    CASE c = 0  -> "Success"
      [] c = 6  -> "No such device or address"
      [] c = 98 -> "Address already in use"
      [] OTHER  -> "Unknown error " \o IntToStr(c)

\* Display of io::Error: the host message and the code for Os, the stored
\* message for Custom.
io_Error_display(e) ==
    IF e.repr = "Os"
    THEN error_string(e.code) \o " (os error " \o IntToStr(e.code) \o ")"
    ELSE e.msg

\* fmt::Formatter::debug_struct(name) ... .field(n, v) ... .finish()
debug_struct(name) == [name |-> name, fields |-> <<>>]

field(b, n, v) == [b EXCEPT !.fields = Append(@, <<n, v>>)]

RECURSIVE JoinFields(_)
JoinFields(fs) ==
    IF Len(fs) = 0 THEN ""
    ELSE IF Len(fs) = 1 THEN fs[1][1] \o ": " \o fs[1][2]
    ELSE fs[1][1] \o ": " \o fs[1][2] \o ", " \o JoinFields(Tail(fs))

finish(b) ==
    IF Len(b.fields) = 0 THEN b.name
    ELSE b.name \o " { " \o JoinFields(b.fields) \o " }"

(***************************************************************************)
(* The crate: OsError and its functions.                                   *)
(***************************************************************************)
\* new, storing the magnitude of the code.
new_Magnitude(c) == [code |-> IF c < 0 THEN -c ELSE c]

\* OsError::new
new(c) == [code |-> c]

\* OsError::code
code(self) == self.code

\* OsError::to_error
to_error(self) == io_Error_from_raw_os_error(self.code)

\* kind, without consulting the host.
kind_AlwaysOther(self) == "Other"

\* OsError::kind
kind(self) == io_Error_kind(to_error(self))

\* Debug, with the two fields in the other order.
fmt_debug_KindFirst(self) ==
    LET error == to_error(self)
    IN  finish(field(field(debug_struct("OsError"),
                           "kind", io_Error_kind(error)),
                     "code", IntToStr(self.code)))

\* impl fmt::Debug for OsError
fmt_debug(self) ==
    LET error == to_error(self)
    IN  finish(field(field(debug_struct("OsError"),
                           "code", IntToStr(self.code)),
                     "kind", io_Error_kind(error)))

\* Display, writing the host message without the rest of the host's text.
fmt_display_MessageOnly(self) == error_string(self.code)

\* impl fmt::Display for OsError
fmt_display(self) == io_Error_display(to_error(self))

\* try_from, with a default code where the condition has none.
try_from_OrDefault(error) ==
    LET r == raw_os_error(error)
    IN  IF IsSome(r) THEN Ok([code |-> Unwrapped(r)]) ELSE Ok([code |-> 0])

\* impl TryFrom<io::Error> for OsError
try_from(error) ==
    LET r == raw_os_error(error)
    IN  IF IsSome(r) THEN Ok([code |-> Unwrapped(r)]) ELSE Err(NoOsError)

\* into, building the condition from the kind alone.
into_FromKind(self) == io_Error_new(kind(self), "")

\* impl Into<io::Error> for OsError
into(self) == to_error(self)

\* #[derive(Clone, Copy)]
clone(self) == [code |-> self.code]

\* #[derive(PartialEq, Eq)]: field by field
derive_eq(a, b) == a.code = b.code

\* cmp, comparing the codes as unsigned integers.
derive_cmp_Unsigned(a, b) ==
    IF a.code = b.code THEN "Equal"
    ELSE IF (a.code < 0) = (b.code < 0)
         THEN (IF a.code < b.code THEN "Less" ELSE "Greater")
         ELSE (IF b.code < 0 THEN "Less" ELSE "Greater")

\* #[derive(Ord)]: the fields compared in order, as signed integers
derive_cmp(a, b) ==
    IF a.code < b.code THEN "Less"
    ELSE IF a.code = b.code THEN "Equal"
    ELSE "Greater"

\* #[derive(PartialOrd)]
derive_partial_cmp(a, b) == Some(derive_cmp(a, b))

\* last_os_error, with unwrap_or(0) in place of unwrap.
last_os_error_OrZero(error) ==
    LET r == raw_os_error(error)
    IN  IF IsSome(r) THEN [panic |-> FALSE, val |-> new(Unwrapped(r))]
        ELSE [panic |-> FALSE, val |-> new(0)]

\* OsError::last_os_error, given the io::Error the host returned:
\* new(error.raw_os_error().unwrap()); unwrap panics on None.
last_os_error(error) ==
    LET r == raw_os_error(error)
    IN  IF IsSome(r) THEN [panic |-> FALSE, val |-> new(Unwrapped(r))]
        ELSE [panic |-> TRUE]

\* The generic error conditions handed to try_from: one per raw code, and
\* two that carry none (the second is the one the tests build).
Conds ==
    {io_Error_from_raw_os_error(c) : c \in Codes}
        \cup {io_Error_new("Other", ""), io_Error_new("AddrInUse", "NoOsError")}

(***************************************************************************)
(* State.                                                                  *)
(***************************************************************************)
VARIABLES
    v,          \* an OsError held by the program (Option)
    w,          \* a copy of v (Option)
    born,       \* the raw code v was constructed from (Option)
    hostLast,   \* per thread: the host's last-error cell (Option of a code)
    lastFail,   \* per thread: the code recorded by the most recent system
                \* call, when that call failed (Option)
    caps,       \* per thread: the last two values last_os_error returned
                \* since the most recent system call on the thread
    panicked,   \* per thread: whether the thread has panicked
    c1, c2,     \* the raw codes of the two values compared
    cond,       \* the generic condition converted
    out         \* the operation performed last and its result

vars == <<v, w, born, hostLast, lastFail, caps, panicked, c1, c2, cond, out>>

valueVars == <<v, w, born>>

threadVars == <<hostLast, lastFail, caps, panicked>>

inputVars == <<c1, c2, cond>>

\* The last error read from one cell shared by every thread.
io_Error_last_os_error_ProcessWide(t) ==
    IF IsSome(hostLast[1]) THEN io_Error_from_raw_os_error(Unwrapped(hostLast[1]))
    ELSE io_Error_new("Other", "")

\* io::Error::last_os_error() on thread t: the thread's own cell; a host
\* with no code to give returns an error without one.
io_Error_last_os_error(t) ==
    IF IsSome(hostLast[t]) THEN io_Error_from_raw_os_error(Unwrapped(hostLast[t]))
    ELSE io_Error_new("Other", "")

\* The captures kept for a thread: the previous one and the new one.
LastTwo(s, x) == IF Len(s) = 0 THEN <<x>> ELSE <<s[Len(s)], x>>

Held == {x \in {"v", "w"} : IF x = "v" THEN IsSome(v) ELSE IsSome(w)}

Get(x) == IF x = "v" THEN Unwrapped(v) ELSE Unwrapped(w)

\* A thread starts with errno 0 or, on a host that has nothing to report,
\* with no code at all.
Init ==
    /\ v = None
    /\ w = None
    /\ born = None
    /\ hostLast \in [Threads -> {None, Some(0)}]
    /\ lastFail = [t \in Threads |-> None]
    /\ caps = [t \in Threads |-> <<>>]
    /\ panicked = [t \in Threads |-> FALSE]
    /\ c1 = 0
    /\ c2 = 0
    /\ cond = io_Error_from_raw_os_error(0)
    /\ out = [op |-> "init"]

PairInit ==
    /\ v = None
    /\ w = None
    /\ born = None
    /\ hostLast = [t \in Threads |-> Some(0)]
    /\ lastFail = [t \in Threads |-> None]
    /\ caps = [t \in Threads |-> <<>>]
    /\ panicked = [t \in Threads |-> FALSE]
    /\ c1 \in CmpCodes
    /\ c2 \in CmpCodes
    /\ cond \in Conds
    /\ out = [op |-> "init"]

(***************************************************************************)
(* Operations on a held value.                                             *)
(***************************************************************************)
New(c) ==
    /\ v = None
    /\ v' = Some(new(c))
    /\ born' = Some(c)
    /\ out' = [op |-> "new", arg |-> c, res |-> new(c)]
    /\ UNCHANGED <<w, threadVars, inputVars>>

Copy ==
    /\ IsSome(v)
    /\ w = None
    /\ w' = Some(clone(Unwrapped(v)))
    /\ out' = [op |-> "copy"]
    /\ UNCHANGED <<v, born, threadVars, inputVars>>

Code(x) ==
    /\ x \in Held
    /\ out' = [op |-> "code", on |-> x, res |-> code(Get(x))]
    /\ UNCHANGED <<valueVars, threadVars, inputVars>>

Kind(x) ==
    /\ x \in Held
    /\ out' = [op |-> "kind", on |-> x, res |-> kind(Get(x))]
    /\ UNCHANGED <<valueVars, threadVars, inputVars>>

FmtDebug(x) ==
    /\ x \in Held
    /\ out' = [op |-> "fmt_debug", on |-> x, res |-> fmt_debug(Get(x))]
    /\ UNCHANGED <<valueVars, threadVars, inputVars>>

FmtDisplay(x) ==
    /\ x \in Held
    /\ out' = [op |-> "fmt_display", on |-> x, res |-> fmt_display(Get(x))]
    /\ UNCHANGED <<valueVars, threadVars, inputVars>>

Into(x) ==
    /\ x \in Held
    /\ out' = [op |-> "into", on |-> x, res |-> into(Get(x))]
    /\ UNCHANGED <<valueVars, threadVars, inputVars>>

(***************************************************************************)
(* Threads: system calls and last_os_error.                                *)
(***************************************************************************)
\* A system call on thread t fails and records code c as t's last error.
FailingSyscall(t, c) ==
    /\ ~panicked[t]
    /\ hostLast' = [hostLast EXCEPT ![t] = Some(c)]
    /\ lastFail' = [lastFail EXCEPT ![t] = Some(c)]
    /\ caps' = [caps EXCEPT ![t] = <<>>]
    /\ out' = [op |-> "syscall", thread |-> t]
    /\ UNCHANGED <<valueVars, panicked, inputVars>>

\* Any other system call on thread t: it may leave the cell as it is or
\* overwrite it.
OtherSyscall(t, h) ==
    /\ ~panicked[t]
    /\ IsSome(hostLast[t])
    /\ hostLast' = [hostLast EXCEPT ![t] = h]
    /\ lastFail' = [lastFail EXCEPT ![t] = None]
    /\ caps' = [caps EXCEPT ![t] = <<>>]
    /\ out' = [op |-> "syscall", thread |-> t]
    /\ UNCHANGED <<valueVars, panicked, inputVars>>

\* OsError::last_os_error() on thread t, leaving cell in the thread's
\* last-error cell; with keep the result is stored in v.
Capture(t, keep, cell) ==
    LET r == last_os_error(io_Error_last_os_error(t))
    IN  /\ ~panicked[t]
        /\ keep => v = None
        /\ IF r.panic
           THEN /\ panicked' = [panicked EXCEPT ![t] = TRUE]
                /\ out' = [op |-> "last_os_error", thread |-> t, panic |-> TRUE]
                /\ UNCHANGED <<valueVars, caps>>
           ELSE /\ out' = [op |-> "last_os_error", thread |-> t, panic |-> FALSE,
                           res |-> r.val]
                /\ caps' = [caps EXCEPT ![t] = LastTwo(@, r.val)]
                /\ IF keep
                   THEN v' = Some(r.val) /\ born' = hostLast[t]
                   ELSE UNCHANGED <<v, born>>
                /\ UNCHANGED <<w, panicked>>
        /\ hostLast' = [hostLast EXCEPT ![t] = cell]
        /\ UNCHANGED <<lastFail, inputVars>>

\* last_os_error, resetting the thread's last error once it is read.
LastOsError_Clearing(t, keep) == Capture(t, keep, Some(0))

\* OsError::last_os_error() only reads the cell.
LastOsError(t, keep) == Capture(t, keep, hostLast[t])

(***************************************************************************)
(* Operations on the inputs of PairSpec.                                   *)
(***************************************************************************)
Eq ==
    /\ out' = [op |-> "eq", res |-> derive_eq(new(c1), new(c2))]
    /\ UNCHANGED <<valueVars, threadVars, inputVars>>

Cmp ==
    /\ out' = [op |-> "cmp", res |-> derive_cmp(new(c1), new(c2))]
    /\ UNCHANGED <<valueVars, threadVars, inputVars>>

PartialCmp ==
    /\ out' = [op |-> "partial_cmp", res |-> derive_partial_cmp(new(c1), new(c2))]
    /\ UNCHANGED <<valueVars, threadVars, inputVars>>

TryFrom ==
    /\ out' = [op |-> "try_from", res |-> try_from(cond)]
    /\ UNCHANGED <<valueVars, threadVars, inputVars>>

Next ==
    \/ \E c \in Codes : New(c)
    \/ Copy
    \/ \E x \in {"v", "w"} : Code(x)
    \/ \E x \in {"v", "w"} : Kind(x)
    \/ \E x \in {"v", "w"} : FmtDebug(x)
    \/ \E x \in {"v", "w"} : FmtDisplay(x)
    \/ \E x \in {"v", "w"} : Into(x)
    \/ \E t \in Threads, c \in SysCodes : FailingSyscall(t, c)
    \/ \E t \in Threads, h \in {Some(c) : c \in SysCodes \cup {0}} : OtherSyscall(t, h)
    \/ \E t \in Threads, keep \in BOOLEAN : LastOsError(t, keep)

Spec == Init /\ [][Next]_vars

PairNext ==
    \/ Eq
    \/ Cmp
    \/ PartialCmp
    \/ TryFrom

PairSpec == PairInit /\ [][PairNext]_vars

(***************************************************************************)
(* Properties.                                                             *)
(***************************************************************************)
\* The decimal text of each code of CmpCodes, written out.
CodeText(c) ==
    CASE c = -1 -> "-1" [] c = 0 -> "0" [] c = 6 -> "6" [] c = 98 -> "98"
      [] c = I32Max -> "2147483647" [] c = I32Min -> "-2147483648"

\* The order of two integers.
IntOrder(a, b) == IF a < b THEN "Less" ELSE IF a > b THEN "Greater" ELSE "Equal"

Reverse(o) == IF o = "Less" THEN "Greater" ELSE IF o = "Greater" THEN "Less" ELSE o

\* C1: the code a value was constructed from is the code it holds and the
\* code its accessor returns, in every state: after the other operations
\* on it, in its copy, and whatever the threads' last errors become.
C1_CodeNeverMutated ==
    /\ IsSome(v) => IsSome(born) /\ code(Unwrapped(v)) = Unwrapped(born)
    /\ IsSome(w) => IsSome(v) /\ code(Unwrapped(w)) = Unwrapped(born)
    /\ out.op = "new" => code(out.res) = out.arg /\ born = Some(out.arg)
    /\ out.op = "code" => out.res = Unwrapped(born)

C1_Witness ==
    /\ out.op = "code"
    /\ out.on = "w"
    /\ born = Some(-1)
    /\ out.res = -1
    /\ hostLast[1] = Some(98)

\* C2: try_from of a condition that carries raw code c is Ok of the value
\* new(c); of a condition that carries none it is Err(NoOsError); it has no
\* third outcome.
C2_TryFrom ==
    out.op = "try_from" =>
        /\ out.res.ok \in BOOLEAN
        /\ cond.repr = "Os" => out.res = Ok(new(cond.code))
        /\ cond.repr # "Os" => out.res = Err(NoOsError)

C2_Witness ==
    /\ out.op = "try_from"
    /\ cond = io_Error_new("AddrInUse", "NoOsError")
    /\ out.res = Err(NoOsError)

\* C3: last_os_error on thread t, with no system call on t since one that
\* failed there, returns a value whose code is the code that call recorded,
\* whatever the other threads' system calls recorded.
C3_CaptureAfterFailure ==
    (out.op = "last_os_error" /\ IsSome(lastFail[out.thread])) =>
        /\ ~out.panic
        /\ code(out.res) = Unwrapped(lastFail[out.thread])

C3_Witness ==
    /\ out.op = "last_os_error"
    /\ out.thread = 2
    /\ lastFail[2] = Some(6)
    /\ lastFail[1] = Some(98)
    /\ ~out.panic
    /\ code(out.res) = 6

\* C4: a step of last_os_error leaves every thread's last-error cell as it
\* was, and two values it returned on one thread with no system call on
\* that thread in between are equal.
C4_CaptureReadsOnly ==
    [][/\ out'.op = "last_os_error" => hostLast' = hostLast
       /\ \A t \in Threads : Len(caps'[t]) = 2 => caps'[t][1] = caps'[t][2]]_vars

C4_Witness ==
    /\ out.op = "last_os_error"
    /\ Len(caps[out.thread]) = 2
    /\ hostLast[out.thread] = Some(98)

\* C5: last_os_error panics exactly when the host has no raw code to
\* report; when the host reports code c, zero included, it returns new(c).
C5_PanicOnlyWithoutCode ==
    /\ \A t \in Threads : panicked[t] => hostLast[t] = None
    /\ out.op = "last_os_error" =>
        /\ out.panic <=> hostLast[out.thread] = None
        /\ IsSome(hostLast[out.thread]) =>
              ~out.panic /\ out.res = new(Unwrapped(hostLast[out.thread]))

C5_Witness ==
    \E t \in Threads :
        /\ panicked[t]
        /\ hostLast[t] = None
        /\ out.op = "last_os_error"
        /\ out.thread # t
        /\ hostLast[out.thread] = Some(0)
        /\ ~out.panic
        /\ out.res = new(0)

\* C6: new(c1) = new(c2) exactly when c1 = c2, and cmp (and partial_cmp)
\* order new(c1) and new(c2) as the signed integers c1 and c2 are ordered;
\* the order is total and antisymmetric.
C6_EqAndOrderByCode ==
    /\ out.op = "eq" => (out.res <=> c1 = c2)
    /\ out.op = "cmp" =>
        /\ out.res = IntOrder(c1, c2)
        /\ derive_cmp(new(c2), new(c1)) = Reverse(out.res)
        /\ (out.res = "Equal") <=> derive_eq(new(c1), new(c2))
    /\ out.op = "partial_cmp" => out.res = Some(IntOrder(c1, c2))

C6_Witness ==
    /\ out.op = "cmp"
    /\ c1 = -1
    /\ c2 = 6
    /\ out.res = "Less"

\* C7: kind of a value constructed from c is the category the host gives
\* for c, and Other for every code the host does not recognise.
C7_KindIsHostKind ==
    out.op = "kind" =>
        /\ out.res = decode_error_kind(Unwrapped(born))
        /\ ~HostRecognises(Unwrapped(born)) => out.res = "Other"

C7_Witness ==
    /\ out.op = "kind"
    /\ born = Some(-1)
    /\ out.res = "Other"

\* C8: into of a value constructed from c is a condition that carries raw
\* code c and has the value's kind, and try_from of it is Ok of the value.
C8_IntoRoundTrip ==
    out.op = "into" =>
        /\ raw_os_error(out.res) = born
        /\ io_Error_kind(out.res) = kind(Get(out.on))
        /\ try_from(out.res) = Ok(Get(out.on))

C8_Witness ==
    /\ out.op = "into"
    /\ born = Some(98)
    /\ io_Error_kind(out.res) = "AddrInUse"

\* C9 (as amended): the Debug text of a value constructed from c is the
\* struct OsError with two fields in this order, code: c and kind: its
\* kind; for code 6 it is "OsError { code: 6, kind: Other }".
C9_DebugText ==
    out.op = "fmt_debug" =>
        out.res = "OsError { code: " \o CodeText(Unwrapped(born))
                      \o ", kind: " \o kind(new(Unwrapped(born))) \o " }"

C9_Witness ==
    /\ out.op = "fmt_debug"
    /\ born = Some(6)
    /\ out.res = "OsError { code: 6, kind: Other }"

\* C9 as stated: for code 6 the Debug text is
\* "OsErrorValue { code: 6, kind: Other }".
C9_Original ==
    (out.op = "fmt_debug" /\ born = Some(6)) =>
        out.res = "OsErrorValue { code: 6, kind: Other }"

\* C10: the Display text of a value constructed from c is the text the
\* host's condition built from raw code c displays.
C10_DisplayIsHostText ==
    out.op = "fmt_display" =>
        out.res = io_Error_display(io_Error_from_raw_os_error(Unwrapped(born)))

C10_Witness ==
    /\ out.op = "fmt_display"
    /\ born = Some(6)
    /\ out.res = "No such device or address (os error 6)"

====
